---------------------------- MODULE Spec2Model ----------------------------
(***************************************************************************)
(* Chapter 2, "Script Mode": the notebook                                  *)
(* chapter2/1_Using_SageMaker_Script_Mode.ipynb with the two scripts it    *)
(* renders, 1_sources/train.py and 1_sources/inference.py.                 *)
(*                                                                         *)
(*   SpecServe     the model server running inference.py: model_fn once,   *)
(*                 then transform_fn request by request                    *)
(*   SpecNotebook  the notebook's cells in order: fetch, CSV export,       *)
(*                 upload, fit, create_model, deploy, endpoint test        *)
(*   SpecDataset   the notebook's dataset cells alone: fetch, CSV export,  *)
(*                 upload                                                  *)
(*   SpecTrain     a run of train.py, started by estimator.fit or by hand  *)
(*   SpecExtend    2_Extending_Prebuilt_Training_Container.ipynb: the      *)
(*                 build of 2_sources/Dockerfile.training, then train.py   *)
(*                 run from the image                                      *)
(*   SpecByo       the BYO serving notebook's endpoint test and the model  *)
(*                 handler behind the endpoint                             *)
(*                                                                         *)
(* Python values are tagged records [t, v]; texts are TLA+ strings read    *)
(* character by character, so json and csv are modelled by what they do.   *)
(***************************************************************************)
EXTENDS Integers, Sequences, FiniteSets, TLC

VARIABLES
    \* ---- inference.py under the model server
    srv,                \* "starting" until model_fn has returned, then "serving"
    module,             \* inference.py's module-level variables: name -> value
    loaded,             \* what model_fn returned, kept by the server
    model_fn_calls,     \* calls of model_fn so far
    inference_pipeline, \* transform_fn argument
    data,               \* transform_fn argument: request body
    content_type,       \* transform_fn argument
    accept_type,        \* transform_fn argument
    t_pc,               \* position inside transform_fn
    deser_data,         \* local of transform_fn
    predictions,        \* local of transform_fn
    outcome,            \* "none" | "returned" | "raised"
    response,           \* the returned string
    error,              \* the raised exception
    pipeline_calls,     \* pipeline invocations for the current request
    n_requests,         \* requests handled so far
    prev,               \* the request before this one and its outcome, when it
                        \* was this very request (history; NoRequest otherwise)
    \* ---- the notebook 1_Using_SageMaker_Script_Mode.ipynb
    train_dataset,      \* fetch_20newsgroups(subset='train', ...)
    test_dataset,       \* fetch_20newsgroups(subset='test', ...)
    files,              \* the notebook's working directory: file name -> text
    s3,                 \* the session's bucket: URI -> text
    train_dataset_uri,
    test_dataset_uri,
    running,            \* the cell the kernel is executing, or "none"
    completed,          \* the cells that ran to their end, in order
    nb_error,           \* the exception that stopped the notebook, if any
    job,                \* status of the training job estimator.fit created
    endpoint,           \* status of the endpoint model.deploy created
    loop_i,             \* i of the endpoint test loop
    sample_id,          \* sample_id of the endpoint test loop
    in_flight,          \* a predict request is waiting for its response
    \* ---- a run of train.py
    hyperparameters,    \* the notebook's dict: <<key, value>> pairs in order
    launched,           \* "none" | "platform" (estimator.fit) | "local"
    environ,            \* os.environ of the run: name -> path
    input_files,        \* the data files present where the run can read them
    argv,               \* the command line after the script name
    args,               \* the Namespace parse_known_args returned
    training_args,      \* the TrainingArguments train() built
    tr_pc,              \* position inside train.py
    read_paths,         \* the files the run has read
    written,            \* <<directory, what>> for all the run has written
    trained,            \* trainer.train() has returned
    exit_error,         \* the exception that ended the run, if any
    \* ---- 2_Extending_Prebuilt_Training_Container.ipynb and its Dockerfile
    build,              \* "none" | "building" | "built" | "failed"
    build_pc,           \* the Dockerfile instruction the build is at
    image_env,          \* the image's environment: name -> value
    image_fs,           \* the files the build added to the image: path -> file copied
    program,            \* the file the container ran as the training program
    \* ---- the BYO serving notebook and the model handler behind its endpoint
    byo_pc,             \* the cell to run next, or "stopped" after an exception
    byo_files,          \* the notebook's working directory: file name -> image
    resized_test_image, \* the notebook's variable of that name
    byo_error,          \* the exception that stopped the notebook, if any
    payload,            \* the notebook's variable of that name
    h_body,             \* the body of the request handle() was called with
    h_initialized,      \* the handler holds a loaded model
    h_loads,            \* times the handler has loaded the model
    h_pc,               \* position inside handle()
    h_steps,            \* what handle() has done for the current request, in order
    h_requests          \* handle() calls so far

serveVars == <<srv, module, loaded, model_fn_calls, inference_pipeline, data,
               content_type, accept_type, t_pc, deser_data, predictions, outcome,
               response, error, pipeline_calls, n_requests, prev>>

nbVars == <<train_dataset, test_dataset, files, s3, train_dataset_uri,
            test_dataset_uri, running, completed, nb_error, job, endpoint,
            loop_i, sample_id, in_flight>>

trainVars == <<hyperparameters, launched, environ, input_files, argv, args,
               training_args, tr_pc, read_paths, written, trained, exit_error>>

extVars == <<build, build_pc, image_env, image_fs, program>>

byoVars == <<byo_pc, byo_files, resized_test_image, byo_error, payload, h_body,
             h_initialized, h_loads, h_pc, h_steps, h_requests>>

vars == <<serveVars, nbVars, trainVars, extVars, byoVars>>

\* what a step of one part leaves alone
otherThanServe == <<nbVars, trainVars, extVars, byoVars>>
otherThanNb == <<serveVars, trainVars, extVars, byoVars>>
otherThanTrain == <<serveVars, nbVars, extVars, byoVars>>
otherThanExt == <<serveVars, nbVars, byoVars>>
otherThanByo == <<serveVars, nbVars, trainVars, extVars>>

-----------------------------------------------------------------------------
(* Bounds of the model *)

MaxRequests == 2
MaxSamples == 2         \* samples per dataset split

-----------------------------------------------------------------------------
(* Python strings *)

Char(s, i) == SubSeq(s, i, i)

\* sub in s
Contains(sub, s) ==
    \E i \in 1..(Len(s) - Len(sub) + 1) : SubSeq(s, i, i + Len(sub) - 1) = sub

Digits == <<"0", "1", "2", "3", "4", "5", "6", "7", "8", "9">>

IsDigit(c) == \E d \in 1..10 : Digits[d] = c

DigitVal(c) == (CHOOSE d \in 1..10 : Digits[d] = c) - 1

-----------------------------------------------------------------------------
(* Python values *)

None == [t |-> "none", v |-> "none"]
PyStr(s) == [t |-> "str", v |-> s]
PyInt(n) == [t |-> "int", v |-> n]
PyFloat(lit) == [t |-> "float", v |-> lit]      \* v is the float's repr
PyBool(b) == [t |-> "bool", v |-> b]
PyList(xs) == [t |-> "list", v |-> xs]
PyDict(kvs) == [t |-> "dict", v |-> kvs]        \* v: <<key, value>> pairs in insertion order

NoError == [type |-> "", msg |-> ""]
Exception(type, msg) == [type |-> type, msg |-> msg]


-----------------------------------------------------------------------------
(* json.dumps, as inference.py calls it: default separators ", " and ": ", *)
(* keys in insertion order, strings escaped.                               *)

RECURSIVE JsonEscape(_)
JsonEscape(s) ==
    IF s = "" THEN ""
    ELSE LET c == Char(s, 1)
             e == IF c = "\"" THEN "\\\""
                  ELSE IF c = "\\" THEN "\\\\"
                  ELSE IF c = "\n" THEN "\\n"
                  ELSE c
         IN  e \o JsonEscape(SubSeq(s, 2, Len(s)))

RECURSIVE json_dumps(_)
RECURSIVE DumpItems(_, _)
RECURSIVE DumpMembers(_, _)

\* the elements xs[i..] of a list, joined by ", "
DumpItems(xs, i) ==
    IF i > Len(xs) THEN ""
    ELSE (IF i > 1 THEN ", " ELSE "") \o json_dumps(xs[i]) \o DumpItems(xs, i + 1)

\* the members kvs[i..] of a dict, "key": value joined by ", "
DumpMembers(kvs, i) ==
    IF i > Len(kvs) THEN ""
    ELSE (IF i > 1 THEN ", " ELSE "")
         \o "\"" \o JsonEscape(kvs[i][1]) \o "\": " \o json_dumps(kvs[i][2])
         \o DumpMembers(kvs, i + 1)

json_dumps(x) ==
    CASE x.t = "str"   -> "\"" \o JsonEscape(x.v) \o "\""
      [] x.t = "int"   -> ToString(x.v)
      [] x.t = "float" -> x.v
      [] x.t = "bool"  -> IF x.v THEN "true" ELSE "false"
      [] x.t = "none"  -> "null"
      [] x.t = "list"  -> "[" \o DumpItems(x.v, 1) \o "]"
      [] x.t = "dict"  -> "{" \o DumpMembers(x.v, 1) \o "}"

-----------------------------------------------------------------------------
(* json.loads: a recursive-descent reader of the text.  Every scanner      *)
(* returns [ok, v, i]: whether it read a value, the value, and the         *)
(* position after it.                                                      *)

Scanned(val, i) == [ok |-> TRUE, v |-> val, i |-> i]
ScanFail == [ok |-> FALSE, v |-> None, i |-> 0]

JsonWhitespace == {" ", "\t", "\n", "\r"}

RECURSIVE SkipWs(_, _)
SkipWs(s, i) ==
    IF i <= Len(s) /\ Char(s, i) \in JsonWhitespace THEN SkipWs(s, i + 1) ELSE i

\* the characters of a string literal from position i (after the opening
\* quote) up to the closing quote, with the escapes undone
RECURSIVE ScanString(_, _, _)
ScanString(s, i, acc) ==
    IF i > Len(s) THEN ScanFail
    ELSE LET c == Char(s, i) IN
         IF c = "\"" THEN Scanned(PyStr(acc), i + 1)
         ELSE IF c = "\\" THEN
              IF i + 1 > Len(s) THEN ScanFail
              ELSE LET d == Char(s, i + 1) IN
                   IF d = "\"" \/ d = "\\" THEN ScanString(s, i + 2, acc \o d)
                   ELSE IF d = "n" THEN ScanString(s, i + 2, acc \o "\n")
                   ELSE ScanFail
         ELSE IF c \in {"\n", "\t", "\r"} THEN ScanFail   \* control character
         ELSE ScanString(s, i + 1, acc \o c)

\* the position after the run of digits starting at i
RECURSIVE ScanDigits(_, _)
ScanDigits(s, i) ==
    IF i <= Len(s) /\ IsDigit(Char(s, i)) THEN ScanDigits(s, i + 1) ELSE i

\* int(text) for a run of digits
RECURSIVE DigitsValue(_, _)
DigitsValue(s, acc) ==
    IF s = "" THEN acc
    ELSE DigitsValue(SubSeq(s, 2, Len(s)), 10 * acc + DigitVal(Char(s, 1)))

\* a fraction's digits without trailing zeros, one digit at least: the
\* digits repr() prints for the float that was read
RECURSIVE FracRepr(_)
FracRepr(f) ==
    IF Len(f) > 1 /\ Char(f, Len(f)) = "0" THEN FracRepr(SubSeq(f, 1, Len(f) - 1))
    ELSE f

\* an integer part without leading zeros
RECURSIVE IntRepr(_)
IntRepr(d) ==
    IF Len(d) > 1 /\ Char(d, 1) = "0" THEN IntRepr(SubSeq(d, 2, Len(d))) ELSE d

\* a number: digits, or digits "." digits (no sign, no exponent)
ScanNumber(s, i) ==
    LET j == ScanDigits(s, i)
        whole == SubSeq(s, i, j - 1)
    IN  IF j = i THEN ScanFail
        ELSE IF Len(whole) > 1 /\ Char(whole, 1) = "0" THEN ScanFail
        ELSE IF j <= Len(s) /\ Char(s, j) = "." THEN
             LET k == ScanDigits(s, j + 1) IN
             IF k = j + 1 THEN ScanFail
             ELSE Scanned(PyFloat(whole \o "." \o FracRepr(SubSeq(s, j + 1, k - 1))), k)
        ELSE Scanned(PyInt(DigitsValue(whole, 0)), j)

StartsWith(s, i, word) ==
    i + Len(word) - 1 <= Len(s) /\ SubSeq(s, i, i + Len(word) - 1) = word

RECURSIVE ScanValue(_, _)
RECURSIVE ScanItems(_, _, _)
RECURSIVE ScanMembers(_, _, _)

\* list elements from position i (after "[" or ","), acc the ones read
ScanItems(s, i, acc) ==
    LET r == ScanValue(s, SkipWs(s, i)) IN
    IF ~r.ok THEN ScanFail
    ELSE LET j == SkipWs(s, r.i) IN
         IF j > Len(s) THEN ScanFail
         ELSE IF Char(s, j) = "," THEN ScanItems(s, j + 1, Append(acc, r.v))
         ELSE IF Char(s, j) = "]" THEN Scanned(PyList(Append(acc, r.v)), j + 1)
         ELSE ScanFail

\* dict members from position i (after "{" or ","), acc the ones read
ScanMembers(s, i, acc) ==
    LET k == SkipWs(s, i) IN
    IF k > Len(s) \/ Char(s, k) # "\"" THEN ScanFail
    ELSE LET key == ScanString(s, k + 1, "") IN
         IF ~key.ok THEN ScanFail
         ELSE LET c == SkipWs(s, key.i) IN
              IF c > Len(s) \/ Char(s, c) # ":" THEN ScanFail
              ELSE LET r == ScanValue(s, SkipWs(s, c + 1)) IN
                   IF ~r.ok THEN ScanFail
                   ELSE LET j == SkipWs(s, r.i)
                            more == Append(acc, <<key.v.v, r.v>>)
                        IN  IF j > Len(s) THEN ScanFail
                            ELSE IF Char(s, j) = "," THEN ScanMembers(s, j + 1, more)
                            ELSE IF Char(s, j) = "}" THEN Scanned(PyDict(more), j + 1)
                            ELSE ScanFail

ScanValue(s, i) ==
    IF i > Len(s) THEN ScanFail
    ELSE LET c == Char(s, i) IN
         IF c = "\"" THEN ScanString(s, i + 1, "")
         ELSE IF c = "[" THEN
              LET j == SkipWs(s, i + 1) IN
              IF j <= Len(s) /\ Char(s, j) = "]" THEN Scanned(PyList(<<>>), j + 1)
              ELSE ScanItems(s, i + 1, <<>>)
         ELSE IF c = "{" THEN
              LET j == SkipWs(s, i + 1) IN
              IF j <= Len(s) /\ Char(s, j) = "}" THEN Scanned(PyDict(<<>>), j + 1)
              ELSE ScanMembers(s, i + 1, <<>>)
         ELSE IF StartsWith(s, i, "true") THEN Scanned(PyBool(TRUE), i + 4)
         ELSE IF StartsWith(s, i, "false") THEN Scanned(PyBool(FALSE), i + 5)
         ELSE IF StartsWith(s, i, "null") THEN Scanned(None, i + 4)
         ELSE ScanNumber(s, i)

\* json.loads(s): [ok, v]; not ok is json.JSONDecodeError
json_loads(s) ==
    LET r == ScanValue(s, SkipWs(s, 1)) IN
    IF r.ok /\ SkipWs(s, r.i) = Len(s) + 1 THEN [ok |-> TRUE, v |-> r.v]
    ELSE [ok |-> FALSE, v |-> None]

IsJson(s) == json_loads(s).ok

\* == of two Python values, compared tag first
RECURSIVE PyEq(_, _)
PyEq(a, b) ==
    /\ a.t = b.t
    /\ CASE a.t = "list" ->
                /\ Len(a.v) = Len(b.v)
                /\ \A i \in 1..Len(a.v) : PyEq(a.v[i], b.v[i])
         [] a.t = "dict" ->
                /\ Len(a.v) = Len(b.v)
                /\ \A i \in 1..Len(a.v) :
                       a.v[i][1] = b.v[i][1] /\ PyEq(a.v[i][2], b.v[i][2])
         [] OTHER -> a.v = b.v

-----------------------------------------------------------------------------
(* inference.py *)

NUM_LABELS == 6
MAX_LENGTH == 512

\* model_fn(model_dir): the text-classification pipeline it builds
model_fn(model_dir, cuda) ==
    [task |-> "text-classification", model_dir |-> model_dir,
     num_labels |-> NUM_LABELS, max_length |-> MAX_LENGTH, truncation |-> TRUE,
     device |-> IF cuda THEN 0 ELSE -1]

\* The fine-tuned classifier is opaque: any function from a text to one of
\* the NUM_LABELS labels and a score stands for it.
Classify(text) == Len(text) % NUM_LABELS
Score(text) == IF Len(text) % 2 = 0 THEN "0.98" ELSE "0.5"

Predict(text) ==
    PyDict(<< <<"label", PyStr("LABEL_" \o ToString(Classify(text)))>>,
              <<"score", PyFloat(Score(text))>> >>)

\* what the pipeline takes: a text, or a list of texts
PipelineAccepts(x) ==
    \/ x.t = "str"
    \/ x.t = "list" /\ Len(x.v) > 0 /\ \A i \in 1..Len(x.v) : x.v[i].t = "str"

\* inference_pipeline(deser_data): one {label, score} per text
Pipeline(x) ==
    IF x.t = "str" THEN PyList(<<Predict(x.v)>>)
    ELSE PyList([i \in 1..Len(x.v) |-> Predict(x.v[i].v)])

\* raise NotImplemented(msg): NotImplemented is the built-in constant, not
\* the exception class NotImplementedError, and is not callable, so
\* evaluating the call raises TypeError and msg is lost.
RaiseNotImplemented(msg) ==
    Exception("TypeError", "'NotImplementedType' object is not callable")

ContentTypeAny(ct) == TRUE

\* the test guarding deserialization
ContentTypeSupported(ct) == Contains("json", ct)

\* the test guarding serialization
AcceptTypeSupported(at) == Contains("json", at)

SerializeFirstOnly(preds) == json_dumps(preds.v[1])

\* return json.dumps(predictions)
SerializeResponse(preds) == json_dumps(preds)

\* Requests the endpoint may receive
ContentTypes == {"application/json", "application/jsonlines", "text/csv", ""}
AcceptTypes == {"application/json", "application/jsonlines", "text/csv", "*/*"}
Bodies ==
    {"[\"ab\"]", "[\"ab\", \"a,b\"]", " [\"q\\\"x\",\"l\\nm\" ]", "\"abc\"",
     "[1]", "{\"ab\": 1.50}", "[\"ab\"", "ab", ""}

\* MODEL_NAME, NUM_LABELS, MAX_LENGTH: the module's only variables
ModuleGlobals ==
    [name \in {"MODEL_NAME", "NUM_LABELS", "MAX_LENGTH"} |->
        IF name = "MODEL_NAME" THEN PyStr("distilbert-base-uncased")
        ELSE IF name = "NUM_LABELS" THEN PyInt(NUM_LABELS)
        ELSE PyInt(MAX_LENGTH)]

NoRequest ==
    [pipeline |-> None, data |-> "", content_type |-> "", accept_type |-> "",
     outcome |-> "none", response |-> "", error |-> NoError]

ServeInit ==
    /\ srv = "starting"
    /\ module = ModuleGlobals
    /\ loaded = None
    /\ model_fn_calls = 0
    /\ inference_pipeline = None
    /\ data = ""
    /\ content_type = ""
    /\ accept_type = ""
    /\ t_pc = "idle"
    /\ deser_data = None
    /\ predictions = None
    /\ outcome = "none"
    /\ response = ""
    /\ error = NoError
    /\ pipeline_calls = 0
    /\ n_requests = 0
    /\ prev = NoRequest

\* "This method is executed only once when SageMaker starts model server."
ModelFnDue(s) == s = "starting"

ServesAtOnce(s) == TRUE

\* requests are handled once the server has started, model_fn having
\* been "executed at container start time to load model in the memory"
Serves(s) == s = "serving"

\* The model server starts: it calls model_fn and keeps what it returns.
ModelFn ==
    /\ ModelFnDue(srv)
    /\ model_fn_calls < MaxRequests
    /\ \E cuda \in BOOLEAN : loaded' = model_fn("/opt/ml/model", cuda)
    /\ model_fn_calls' = model_fn_calls + 1
    /\ srv' = "serving"
    /\ UNCHANGED <<module, inference_pipeline, data, content_type, accept_type,
                   t_pc, deser_data, predictions, outcome, response, error,
                   pipeline_calls, n_requests, prev>>

\* A request arrives: the server calls transform_fn with the pipeline it
\* keeps. "This method is executed on every request to SageMaker endpoint."
TransformFn_Call ==
    /\ Serves(srv)
    /\ t_pc \in {"idle", "done"}
    /\ n_requests < MaxRequests
    /\ \E d \in Bodies, ct \in ContentTypes, at \in AcceptTypes :
           /\ data' = d
           /\ content_type' = ct
           /\ accept_type' = at
           /\ prev' = IF /\ t_pc = "done"
                         /\ d = data /\ ct = content_type /\ at = accept_type
                      THEN [pipeline |-> inference_pipeline, data |-> data,
                            content_type |-> content_type,
                            accept_type |-> accept_type, outcome |-> outcome,
                            response |-> response, error |-> error]
                      ELSE NoRequest
    /\ inference_pipeline' = loaded
    /\ t_pc' = "deserialize"
    /\ deser_data' = None
    /\ predictions' = None
    /\ outcome' = "none"
    /\ response' = ""
    /\ error' = NoError
    /\ pipeline_calls' = 0
    /\ n_requests' = n_requests + 1
    /\ UNCHANGED <<srv, module, loaded, model_fn_calls>>

Raise(e) ==
    /\ outcome' = "raised"
    /\ error' = e
    /\ t_pc' = "done"

\* both types checked on entry
TransformFn_DeserializeChecksAccept ==
    /\ t_pc = "deserialize"
    /\ IF ~ContentTypeSupported(content_type)
       THEN /\ Raise(RaiseNotImplemented("Only 'application/json' content type is supported."))
            /\ UNCHANGED deser_data
       ELSE IF ~AcceptTypeSupported(accept_type)
       THEN /\ Raise(RaiseNotImplemented("Only 'application/json' accept type is supported."))
            /\ UNCHANGED deser_data
       ELSE LET r == json_loads(data) IN
            IF r.ok
            THEN /\ deser_data' = r.v
                 /\ t_pc' = "infer"
                 /\ UNCHANGED <<outcome, error>>
            ELSE /\ Raise(Exception("JSONDecodeError", "json.loads"))
                 /\ UNCHANGED deser_data
    /\ UNCHANGED <<srv, module, loaded, model_fn_calls, inference_pipeline, data,
                   content_type, accept_type, predictions, response,
                   pipeline_calls, n_requests, prev>>

\* # Deserialize payload
TransformFn_Deserialize ==
    /\ t_pc = "deserialize"
    /\ IF ContentTypeSupported(content_type)
       THEN LET r == json_loads(data) IN
            IF r.ok
            THEN /\ deser_data' = r.v
                 /\ t_pc' = "infer"
                 /\ UNCHANGED <<outcome, error>>
            ELSE /\ Raise(Exception("JSONDecodeError", "json.loads"))
                 /\ UNCHANGED deser_data
       ELSE /\ Raise(RaiseNotImplemented("Only 'application/json' content type is supported."))
            /\ UNCHANGED deser_data
    /\ UNCHANGED <<srv, module, loaded, model_fn_calls, inference_pipeline, data,
                   content_type, accept_type, predictions, response,
                   pipeline_calls, n_requests, prev>>

\* a module-level memo of the last predictions
TransformFn_InferMemoised ==
    /\ t_pc = "infer"
    /\ pipeline_calls' = pipeline_calls + 1
    /\ IF "memo" \in DOMAIN module
       THEN /\ predictions' = module["memo"]
            /\ t_pc' = "serialize"
            /\ UNCHANGED <<outcome, error, module>>
       ELSE IF PipelineAccepts(deser_data)
       THEN /\ predictions' = Pipeline(deser_data)
            /\ module' = [name \in DOMAIN module \cup {"memo"} |->
                              IF name = "memo" THEN Pipeline(deser_data)
                              ELSE module[name]]
            /\ t_pc' = "serialize"
            /\ UNCHANGED <<outcome, error>>
       ELSE /\ Raise(Exception("ValueError", "inference_pipeline"))
            /\ UNCHANGED <<predictions, module>>
    /\ UNCHANGED <<srv, loaded, model_fn_calls, inference_pipeline, data,
                   content_type, accept_type, deser_data, response, n_requests,
                   prev>>

TransformFn_InferRetries ==
    /\ t_pc = "infer"
    /\ IF PipelineAccepts(deser_data)
       THEN /\ predictions' = Pipeline(deser_data)
            /\ pipeline_calls' = pipeline_calls + 1
            /\ t_pc' = "serialize"
            /\ UNCHANGED <<outcome, error>>
       ELSE /\ pipeline_calls' = pipeline_calls + 2
            /\ Raise(Exception("RuntimeError", "inference failed twice"))
            /\ UNCHANGED predictions
    /\ UNCHANGED <<srv, module, loaded, model_fn_calls, inference_pipeline, data,
                   content_type, accept_type, deser_data, response, n_requests,
                   prev>>

\* # Run inference
TransformFn_Infer ==
    /\ t_pc = "infer"
    /\ pipeline_calls' = pipeline_calls + 1
    /\ IF PipelineAccepts(deser_data)
       THEN /\ predictions' = Pipeline(deser_data)
            /\ t_pc' = "serialize"
            /\ UNCHANGED <<outcome, error>>
       ELSE /\ Raise(Exception("ValueError", "inference_pipeline"))
            /\ UNCHANGED predictions
    /\ UNCHANGED <<srv, module, loaded, model_fn_calls, inference_pipeline, data,
                   content_type, accept_type, deser_data, response, n_requests,
                   prev>>

\* # Serialize response
TransformFn_Serialize ==
    /\ t_pc = "serialize"
    /\ IF AcceptTypeSupported(accept_type)
       THEN /\ response' = SerializeResponse(predictions)
            /\ outcome' = "returned"
            /\ t_pc' = "done"
            /\ UNCHANGED error
       ELSE /\ Raise(RaiseNotImplemented("Only 'application/json' accept type is supported."))
            /\ UNCHANGED response
    /\ UNCHANGED <<srv, module, loaded, model_fn_calls, inference_pipeline, data,
                   content_type, accept_type, deser_data, predictions,
                   pipeline_calls, n_requests, prev>>

ServeNext ==
    \/ ModelFn /\ UNCHANGED otherThanServe
    \/ TransformFn_Call /\ UNCHANGED otherThanServe
    \/ TransformFn_Deserialize /\ UNCHANGED otherThanServe
    \/ TransformFn_Infer /\ UNCHANGED otherThanServe
    \/ TransformFn_Serialize /\ UNCHANGED otherThanServe

-----------------------------------------------------------------------------
(* csv.DictWriter with the default (excel) dialect, as the export cell     *)
(* uses it: "," between fields, "\r\n" after each row, a field quoted      *)
(* when it holds a comma, a quote or a line break, quotes doubled.         *)

NeedsQuoting(field) ==
    \E i \in 1..Len(field) : Char(field, i) \in {",", "\"", "\r", "\n"}

RECURSIVE DoubleQuotes(_)
DoubleQuotes(s) ==
    IF s = "" THEN ""
    ELSE (IF Char(s, 1) = "\"" THEN "\"\"" ELSE Char(s, 1))
         \o DoubleQuotes(SubSeq(s, 2, Len(s)))

CsvFieldUnquoted(field) == field

CsvField(field) ==
    IF NeedsQuoting(field) THEN "\"" \o DoubleQuotes(field) \o "\"" ELSE field

\* w.writerow / w.writeheader: the line for a row of fields
RECURSIVE CsvJoin(_, _)
CsvJoin(fields, i) ==
    IF i > Len(fields) THEN "\r\n"
    ELSE (IF i > 1 THEN "," ELSE "") \o CsvField(fields[i]) \o CsvJoin(fields, i + 1)

CsvRow(fields) == CsvJoin(fields, 1)

FIELDNAMES == <<"data", "category_id">>

\* the rows the inner loop writes: range(len(dataset["data"])) from i on
RECURSIVE WriteRows(_, _)
WriteRows(dataset, i) ==
    IF i > Len(dataset.data) THEN ""
    ELSE CsvRow(<<dataset.data[i], ToString(dataset.target[i])>>)
         \o WriteRows(dataset, i + 1)

\* the text of one exported file: header, then one row per sample
WriteCsv(dataset) == CsvRow(FIELDNAMES) \o WriteRows(dataset, 1)

-----------------------------------------------------------------------------
(* Reading a CSV text back (csv.reader, pandas.read_csv): the records of   *)
(* the text, each a sequence of fields.                                    *)

RECURSIVE CsvScan(_, _, _, _, _, _, _)
\* s from position i; field and row are the field and record being read,
\* rows the records read, quoted whether i is inside a quoted field, and
\* pending whether the current record has begun
CsvScan(s, i, field, row, rows, quoted, pending) ==
    IF i > Len(s)
    THEN IF pending THEN Append(rows, Append(row, field)) ELSE rows
    ELSE LET c == Char(s, i) IN
         IF quoted
         THEN IF c = "\""
              THEN IF i < Len(s) /\ Char(s, i + 1) = "\""
                   THEN CsvScan(s, i + 2, field \o "\"", row, rows, TRUE, TRUE)
                   ELSE CsvScan(s, i + 1, field, row, rows, FALSE, TRUE)
              ELSE CsvScan(s, i + 1, field \o c, row, rows, TRUE, TRUE)
         ELSE IF c = ","
              THEN CsvScan(s, i + 1, "", Append(row, field), rows, FALSE, TRUE)
         ELSE IF c = "\r" \/ c = "\n"
              THEN LET j == IF c = "\r" /\ i < Len(s) /\ Char(s, i + 1) = "\n"
                            THEN i + 2 ELSE i + 1
                   IN  CsvScan(s, j, "", <<>>,
                               IF pending THEN Append(rows, Append(row, field)) ELSE rows,
                               FALSE, FALSE)
         ELSE IF c = "\"" /\ field = ""
              THEN CsvScan(s, i + 1, "", row, rows, TRUE, TRUE)
         ELSE CsvScan(s, i + 1, field \o c, row, rows, FALSE, TRUE)

CsvRecords(text) == CsvScan(text, 1, "", <<>>, <<>>, FALSE, FALSE)

\* the column of a header that is called name (0: none)
Column(header, name) ==
    IF \E k \in 1..Len(header) : header[k] = name
    THEN CHOOSE k \in 1..Len(header) : header[k] = name
    ELSE 0

\* the field of a record in a column; a short record has no such field
Cell(rec, col) == IF col \in 1..Len(rec) THEN rec[col] ELSE ""

AllDigits(text) == text # "" /\ \A i \in 1..Len(text) : IsDigit(Char(text, i))

\* a cell as a value: an integer when it is written as one, else the text
CellValue(text) == IF AllDigits(text) THEN PyInt(DigitsValue(text, 0)) ELSE PyStr(text)

\* pd.read_csv(path, header=0): the data rows under the header's names
ReadCsv(text) ==
    LET recs == CsvRecords(text)
        cd == Column(recs[1], "data")
        cc == Column(recs[1], "category_id")
    IN  [i \in 1..(Len(recs) - 1) |->
            [data |-> Cell(recs[i + 1], cd),
             category_id |-> CellValue(Cell(recs[i + 1], cc))]]

-----------------------------------------------------------------------------
(* The notebook: dataset cells *)

categories_Seven ==
    <<"comp.windows.x", "rec.autos", "sci.electronics", "misc.forsale",
      "talk.politics.misc", "alt.atheism", "sci.space">>

\* The 6 selected newsgroups
categories ==
    <<"comp.windows.x", "rec.autos", "sci.electronics", "misc.forsale",
      "talk.politics.misc", "alt.atheism">>

\* Articles of the corpus with their category index: texts with the
\* characters that matter to CSV (comma, quote, line break)
Articles ==
    { [data |-> "ab", target |-> 0],
      [data |-> "a,b", target |-> Len(categories) - 1],
      [data |-> "q\"x\nm", target |-> 3] }

\* fetch_20newsgroups(...): a Bunch with "data" and "target", one entry per
\* sample
Bunch(samples) ==
    [data |-> [i \in 1..Len(samples) |-> samples[i].data],
     target |-> [i \in 1..Len(samples) |-> samples[i].target]]

Splits == UNION { [1..n -> Articles] : n \in 1..MaxSamples }

NoDataset == [data |-> <<>>, target |-> <<>>]

EXPORT_FILES == <<"train_dataset.csv", "test_dataset.csv">>

\* the dataset whose samples the export loop writes into file: the loop
\* reads train_dataset whatever the file is
ExportedDataset(file) == train_dataset

\* the characters of path after its last "/"
RECURSIVE Basename(_)
Basename(path) ==
    IF Contains("/", path)
    THEN Basename(SubSeq(path, 1 + (CHOOSE i \in 1..Len(path) : Char(path, i) = "/"), Len(path)))
    ELSE path

DefaultBucket == "sagemaker-default-bucket"

\* session.upload_data(path, key_prefix=...): where the file goes
UploadUri(path, key_prefix) ==
    "s3://" \o DefaultBucket \o "/" \o key_prefix \o "/" \o Basename(path)

\* session.upload_data(path, key_prefix="newsgroups"), as the upload cell
\* calls it for both files
UploadData(path) == UploadUri(path, "newsgroups")

\* The cells of the notebook that do something, top to bottom
CELLS == <<"fetch", "export", "upload", "fit", "create_model", "deploy", "test">>

TEST_ITERATIONS == 10

NbInit ==
    /\ train_dataset = NoDataset
    /\ test_dataset = NoDataset
    /\ files = <<>>
    /\ s3 = <<>>
    /\ train_dataset_uri = ""
    /\ test_dataset_uri = ""
    /\ running = "none"
    /\ completed = <<>>
    /\ nb_error = NoError
    /\ job = "none"
    /\ endpoint = "none"
    /\ loop_i = 0
    /\ sample_id = 0
    /\ in_flight = FALSE

\* The kernel runs the cells top to bottom, one at a time, and stops at the
\* first exception.
StartCell ==
    /\ running = "none"
    /\ nb_error = NoError
    /\ Len(completed) < Len(CELLS)
    /\ running' = CELLS[Len(completed) + 1]
    /\ UNCHANGED <<train_dataset, test_dataset, files, s3, train_dataset_uri,
                   test_dataset_uri, completed, nb_error, job, endpoint, loop_i,
                   sample_id, in_flight>>

\* the running cell reaches its end
CellEnds ==
    /\ completed' = Append(completed, running)
    /\ running' = "none"

\* the running cell raises
CellRaises(e) ==
    /\ nb_error' = e
    /\ running' = "none"
    /\ UNCHANGED completed

\* train_dataset = fetch_20newsgroups(subset='train', ...); test_dataset = ...
Fetch ==
    /\ running = "fetch"
    /\ \E tr \in Splits, te \in Splits :
           /\ train_dataset' = Bunch(tr)
           /\ test_dataset' = Bunch(te)
    /\ CellEnds
    /\ UNCHANGED <<files, s3, train_dataset_uri, test_dataset_uri, nb_error, job,
                   endpoint, loop_i, sample_id, in_flight>>

\* for file in ['train_dataset.csv', 'test_dataset.csv']: ... w.writerow(...)
Export ==
    /\ running = "export"
    /\ files' = [f \in {EXPORT_FILES[k] : k \in 1..Len(EXPORT_FILES)} |->
                    WriteCsv(ExportedDataset(f))]
    /\ CellEnds
    /\ UNCHANGED <<train_dataset, test_dataset, s3, train_dataset_uri,
                   test_dataset_uri, nb_error, job, endpoint, loop_i, sample_id,
                   in_flight>>

\* train_dataset_uri = session.upload_data("train_dataset.csv", ...); test_...
Upload ==
    /\ running = "upload"
    /\ LET tr == UploadData("train_dataset.csv")
           te == UploadData("test_dataset.csv")
       IN  /\ train_dataset_uri' = tr
           /\ test_dataset_uri' = te
           /\ s3' = [u \in {tr, te} |->
                        IF u = tr THEN files["train_dataset.csv"]
                        ELSE files["test_dataset.csv"]]
    /\ CellEnds
    /\ UNCHANGED <<train_dataset, test_dataset, files, nb_error, job, endpoint,
                   loop_i, sample_id, in_flight>>

-----------------------------------------------------------------------------
(* The notebook: training job, endpoint, endpoint test *)

\* estimator.fit(inputs) is called without wait=, and fit waits by default
FitNoWait == FALSE

FitWait == TRUE

\* model.deploy(...) is called without wait=, and deploy waits by default
DeployWait == TRUE

JobEnded == {"Completed", "Failed"}
EndpointEnded == {"InService", "Failed"}

\* estimator.fit({...}): the training job is created
Fit_Submit ==
    /\ running = "fit"
    /\ job = "none"
    /\ job' = "InProgress"
    /\ UNCHANGED <<train_dataset, test_dataset, files, s3, train_dataset_uri,
                   test_dataset_uri, running, completed, nb_error, endpoint,
                   loop_i, sample_id, in_flight>>

\* The platform runs the job to its end.
TrainingJob_Ends ==
    /\ job = "InProgress"
    /\ \E st \in JobEnded : job' = st
    /\ UNCHANGED <<train_dataset, test_dataset, files, s3, train_dataset_uri,
                   test_dataset_uri, running, completed, nb_error, endpoint,
                   loop_i, sample_id, in_flight>>

\* estimator.fit returns, or raises when the job it waited for failed
Fit_Returns ==
    /\ running = "fit"
    /\ job # "none"
    /\ FitWait => job \in JobEnded
    /\ IF job = "Failed"
       THEN CellRaises(Exception("UnexpectedStatusException", "training job"))
       ELSE CellEnds /\ UNCHANGED nb_error
    /\ UNCHANGED <<train_dataset, test_dataset, files, s3, train_dataset_uri,
                   test_dataset_uri, job, endpoint, loop_i, sample_id, in_flight>>

\* model = estimator.create_model(...)
CreateModel ==
    /\ running = "create_model"
    /\ CellEnds
    /\ UNCHANGED <<train_dataset, test_dataset, files, s3, train_dataset_uri,
                   test_dataset_uri, nb_error, job, endpoint, loop_i, sample_id,
                   in_flight>>

\* predictor = model.deploy(...): the endpoint is created
Deploy_Start ==
    /\ running = "deploy"
    /\ endpoint = "none"
    /\ endpoint' = "Creating"
    /\ UNCHANGED <<train_dataset, test_dataset, files, s3, train_dataset_uri,
                   test_dataset_uri, running, completed, nb_error, job, loop_i,
                   sample_id, in_flight>>

\* The platform brings the endpoint up, or fails to.
Endpoint_Ends ==
    /\ endpoint = "Creating"
    /\ \E st \in EndpointEnded : endpoint' = st
    /\ UNCHANGED <<train_dataset, test_dataset, files, s3, train_dataset_uri,
                   test_dataset_uri, running, completed, nb_error, job, loop_i,
                   sample_id, in_flight>>

\* model.deploy returns the predictor, or raises when the endpoint failed
Deploy_Returns ==
    /\ running = "deploy"
    /\ endpoint # "none"
    /\ DeployWait => endpoint \in EndpointEnded
    /\ IF endpoint = "Failed"
       THEN CellRaises(Exception("UnexpectedStatusException", "endpoint"))
       ELSE CellEnds /\ UNCHANGED nb_error
    /\ UNCHANGED <<train_dataset, test_dataset, files, s3, train_dataset_uri,
                   test_dataset_uri, job, endpoint, loop_i, sample_id, in_flight>>

\* random.randint(a, b): a <= N <= b
RandInt(a, b) == a..b

\* seq[index] of a Python list is defined
ValidIndex(seq, index) == 0 <= index /\ index < Len(seq)

\* for i in range(10): sample_id = random.randint(...);
\*     prediction = predictor.predict([test_dataset['data'][sample_id]])
TestLoop_Predict ==
    /\ running = "test"
    /\ ~in_flight
    /\ loop_i < TEST_ITERATIONS
    /\ \E sid \in RandInt(0, Len(test_dataset.data)) :
           /\ sample_id' = sid
           /\ IF ~ValidIndex(test_dataset.data, sid)
              THEN /\ CellRaises(Exception("IndexError", "list index out of range"))
                   /\ UNCHANGED in_flight
              ELSE IF endpoint # "InService"
              THEN /\ CellRaises(Exception("ClientError", "InvokeEndpoint"))
                   /\ UNCHANGED in_flight
              ELSE /\ in_flight' = TRUE
                   /\ UNCHANGED <<running, completed, nb_error>>
    /\ UNCHANGED <<train_dataset, test_dataset, files, s3, train_dataset_uri,
                   test_dataset_uri, job, endpoint, loop_i>>

\* the prediction arrives and is printed; next i
TestLoop_Response ==
    /\ running = "test"
    /\ in_flight
    /\ in_flight' = FALSE
    /\ loop_i' = loop_i + 1
    /\ UNCHANGED <<train_dataset, test_dataset, files, s3, train_dataset_uri,
                   test_dataset_uri, running, completed, nb_error, job, endpoint,
                   sample_id>>

\* range(10) is exhausted
TestLoop_Ends ==
    /\ running = "test"
    /\ ~in_flight
    /\ loop_i = TEST_ITERATIONS
    /\ CellEnds
    /\ UNCHANGED <<train_dataset, test_dataset, files, s3, train_dataset_uri,
                   test_dataset_uri, nb_error, job, endpoint, loop_i, sample_id,
                   in_flight>>

NbNext ==
    \/ StartCell /\ UNCHANGED otherThanNb
    \/ Fetch /\ UNCHANGED otherThanNb
    \/ Export /\ UNCHANGED otherThanNb
    \/ Upload /\ UNCHANGED otherThanNb
    \/ Fit_Submit /\ UNCHANGED otherThanNb
    \/ TrainingJob_Ends /\ UNCHANGED otherThanNb
    \/ Fit_Returns /\ UNCHANGED otherThanNb
    \/ CreateModel /\ UNCHANGED otherThanNb
    \/ Deploy_Start /\ UNCHANGED otherThanNb
    \/ Endpoint_Ends /\ UNCHANGED otherThanNb
    \/ Deploy_Returns /\ UNCHANGED otherThanNb
    \/ TestLoop_Predict /\ UNCHANGED otherThanNb
    \/ TestLoop_Response /\ UNCHANGED otherThanNb
    \/ TestLoop_Ends /\ UNCHANGED otherThanNb

\* The notebook run through its dataset cells only: fetch, export, upload
DatasetNext ==
    \/ (StartCell /\ Len(completed) < 3) /\ UNCHANGED otherThanNb
    \/ Fetch /\ UNCHANGED otherThanNb
    \/ Export /\ UNCHANGED otherThanNb
    \/ Upload /\ UNCHANGED otherThanNb

-----------------------------------------------------------------------------
(* The training job's configuration in the notebook *)

\* Values the notebook's user may give each hyperparameter; the first of
\* each is the value written in the notebook.
HyperparameterChoices ==
    << <<"epochs", <<PyInt(1), PyInt(3)>> >>,
       <<"per-device-train-batch-size", <<PyInt(16), PyInt(8)>> >>,
       <<"per-device-eval-batch-size", <<PyInt(64)>> >>,
       <<"warmup-steps", <<PyInt(100), PyInt(0)>> >>,
       <<"logging-steps", <<PyInt(100), PyInt(50)>> >>,
       <<"weight-decay", <<PyFloat("0.01"), PyFloat("0.1")>> >> >>

\* hyperparameters = {...}: every dict with the notebook's keys, in the
\* notebook's order, and one of the values of each
Hyperparameters ==
    { [i \in 1..Len(HyperparameterChoices) |->
          <<HyperparameterChoices[i][1], HyperparameterChoices[i][2][pick[i]]>>] :
      pick \in { f \in [1..Len(HyperparameterChoices) -> 1..2] :
                 \A i \in 1..Len(HyperparameterChoices) :
                     f[i] <= Len(HyperparameterChoices[i][2]) } }

FitInputsValidation ==
    << <<"train", UploadData("train_dataset.csv")>>,
       <<"validation", UploadData("test_dataset.csv")>> >>

\* estimator.fit({"train": train_dataset_uri, "test": test_dataset_uri}),
\* the URIs being what the upload cell got back
FitInputs ==
    << <<"train", UploadData("train_dataset.csv")>>,
       <<"test", UploadData("test_dataset.csv")>> >>

-----------------------------------------------------------------------------
(* What the platform gives a training job, as the notebook states it: each *)
(* channel's files are downloaded to a directory named by SM_CHANNEL_<the  *)
(* channel's name in upper case>, SM_OUTPUT_DIR and SM_MODEL_DIR name the  *)
(* output and model directories, and the hyperparameters arrive as         *)
(* --key value arguments.                                                  *)

LowerCase == "abcdefghijklmnopqrstuvwxyz"
UpperCase == "ABCDEFGHIJKLMNOPQRSTUVWXYZ"

UpperChar(c) ==
    IF \E k \in 1..Len(LowerCase) : Char(LowerCase, k) = c
    THEN Char(UpperCase, CHOOSE k \in 1..Len(LowerCase) : Char(LowerCase, k) = c)
    ELSE c

RECURSIVE Upper(_)
Upper(s) == IF s = "" THEN "" ELSE UpperChar(Char(s, 1)) \o Upper(SubSeq(s, 2, Len(s)))

\* os.path.join(dir, name)
PathJoin(dir, name) ==
    IF dir # "" /\ Char(dir, Len(dir)) = "/" THEN dir \o name ELSE dir \o "/" \o name

ChannelVar(channel) == "SM_CHANNEL_" \o Upper(channel)
ChannelDir(channel) == "/opt/ml/input/data/" \o channel

PlatformEnviron(inputs) ==
    [name \in {ChannelVar(inputs[k][1]) : k \in 1..Len(inputs)}
              \cup {"SM_OUTPUT_DIR", "SM_MODEL_DIR"} |->
        IF name = "SM_OUTPUT_DIR" THEN "/opt/ml/output"
        ELSE IF name = "SM_MODEL_DIR" THEN "/opt/ml/model"
        ELSE ChannelDir(inputs[CHOOSE k \in 1..Len(inputs) : ChannelVar(inputs[k][1]) = name][1])]

\* the files the platform downloads: each channel's object under its name
PlatformInputFiles(inputs) ==
    {PathJoin(ChannelDir(inputs[k][1]), Basename(inputs[k][2])) : k \in 1..Len(inputs)}

\* user_training_script --arg1 value1 --arg2 value2 ...
RECURSIVE HyperparameterArgs(_, _)
HyperparameterArgs(hps, i) ==
    IF i > Len(hps) THEN <<>>
    ELSE <<"--" \o hps[i][1], json_dumps(hps[i][2])>> \o HyperparameterArgs(hps, i + 1)

-----------------------------------------------------------------------------
(* train.py: the main guard *)

ARGUMENTS_Underscores ==
    << [flag |-> "--epochs", type |-> "int", default |-> PyInt(1)],
       [flag |-> "--per_device_train_batch_size", type |-> "int", default |-> PyInt(16)],
       [flag |-> "--per_device_eval_batch_size", type |-> "int", default |-> PyInt(64)],
       [flag |-> "--warmup_steps", type |-> "int", default |-> PyInt(100)],
       [flag |-> "--logging_steps", type |-> "float", default |-> PyInt(100)],
       [flag |-> "--weight_decay", type |-> "float", default |-> PyFloat("0.01")] >>

\* parser.add_argument(flag, type=..., default=...), in order
ARGUMENTS ==
    << [flag |-> "--epochs", type |-> "int", default |-> PyInt(1)],
       [flag |-> "--per-device-train-batch-size", type |-> "int", default |-> PyInt(16)],
       [flag |-> "--per-device-eval-batch-size", type |-> "int", default |-> PyInt(64)],
       [flag |-> "--warmup-steps", type |-> "int", default |-> PyInt(100)],
       [flag |-> "--logging-steps", type |-> "float", default |-> PyInt(100)],
       [flag |-> "--weight-decay", type |-> "float", default |-> PyFloat("0.01")] >>

\* argparse's dest of an option: the flag without "--", "-" turned to "_"
RECURSIVE Underscored(_)
Underscored(s) ==
    IF s = "" THEN ""
    ELSE (IF Char(s, 1) = "-" THEN "_" ELSE Char(s, 1)) \o Underscored(SubSeq(s, 2, Len(s)))

Dest(flag) == Underscored(SubSeq(flag, 3, Len(flag)))

\* the declared arguments an argv token selects: the one it spells, else
\* those it abbreviates
Selected(token) ==
    LET exact == {k \in 1..Len(ARGUMENTS) : ARGUMENTS[k].flag = token}
        abbreviated == {k \in 1..Len(ARGUMENTS) :
                           /\ Len(token) > 2
                           /\ Len(token) <= Len(ARGUMENTS[k].flag)
                           /\ SubSeq(ARGUMENTS[k].flag, 1, Len(token)) = token}
    IN  IF exact # {} THEN exact ELSE abbreviated

\* int(text), float(text): [ok, v]
ParseInt(text) ==
    IF AllDigits(text) THEN [ok |-> TRUE, v |-> PyInt(DigitsValue(text, 0))]
    ELSE [ok |-> FALSE, v |-> None]

ParseFloat(text) ==
    LET j == ScanDigits(text, 1) IN
    IF j = 1 THEN [ok |-> FALSE, v |-> None]
    ELSE IF j = Len(text) + 1
         THEN [ok |-> TRUE, v |-> PyFloat(IntRepr(text) \o ".0")]
    ELSE IF Char(text, j) = "." /\ j < Len(text)
            /\ ScanDigits(text, j + 1) = Len(text) + 1
         THEN [ok |-> TRUE,
               v |-> PyFloat(IntRepr(SubSeq(text, 1, j - 1)) \o "."
                             \o FracRepr(SubSeq(text, j + 1, Len(text))))]
    ELSE [ok |-> FALSE, v |-> None]

Convert(type, text) == IF type = "int" THEN ParseInt(text) ELSE ParseFloat(text)

Defaults == [d \in {Dest(ARGUMENTS[k].flag) : k \in 1..Len(ARGUMENTS)} |->
                ARGUMENTS[CHOOSE k \in 1..Len(ARGUMENTS) : Dest(ARGUMENTS[k].flag) = d].default]

\* parser.parse_known_args() over tokens[i..]: [ok, ns]; unknown tokens are
\* skipped, a value that does not convert (or is missing) is an error
RECURSIVE ParseKnownArgs(_, _, _)
ParseKnownArgs(tokens, i, ns) ==
    IF i > Len(tokens) THEN [ok |-> TRUE, ns |-> ns]
    ELSE LET sel == Selected(tokens[i]) IN
         IF Cardinality(sel) = 0 THEN ParseKnownArgs(tokens, i + 1, ns)
         ELSE IF Cardinality(sel) > 1 \/ i = Len(tokens) THEN [ok |-> FALSE, ns |-> ns]
         ELSE LET a == ARGUMENTS[CHOOSE k \in sel : TRUE]
                  r == Convert(a.type, tokens[i + 1])
              IN  IF r.ok
                  THEN ParseKnownArgs(tokens, i + 2, [ns EXCEPT ![Dest(a.flag)] = r.v])
                  ELSE [ok |-> FALSE, ns |-> ns]

-----------------------------------------------------------------------------
(* train.py: train(args) *)

MODEL_NAME == "distilbert-base-uncased"

\* NUM_LABELS of train.py, which config.num_labels is set to
Train_NUM_LABELS == 6

\* TrainingArguments(field=args.dest, ...): which parsed argument each
\* field takes
TRAINING_ARGUMENTS ==
    << <<"num_train_epochs", "epochs">>,
       <<"per_device_train_batch_size", "per_device_train_batch_size">>,
       <<"per_device_eval_batch_size", "per_device_eval_batch_size">>,
       <<"warmup_steps", "warmup_steps">>,
       <<"weight_decay", "weight_decay">>,
       <<"logging_steps", "logging_steps">> >>

GetEnvNoDefault(env, name, default) == IF name \in DOMAIN env THEN env[name] ELSE ""

\* os.getenv(name, default)
GetEnv(env, name, default) == IF name \in DOMAIN env THEN env[name] ELSE default

TrainingArguments(env, ns) ==
    [field \in {"output_dir"} \cup {TRAINING_ARGUMENTS[k][1] : k \in 1..Len(TRAINING_ARGUMENTS)} |->
        IF field = "output_dir" THEN PyStr(GetEnv(env, "SM_OUTPUT_DIR", "./"))
        ELSE ns[TRAINING_ARGUMENTS[CHOOSE k \in 1..Len(TRAINING_ARGUMENTS) :
                                       TRAINING_ARGUMENTS[k][1] = field][2]]]

AfterTrainSwallowed(ok) == "save"

\* where train() goes after trainer.train(): an exception leaves train()
AfterTrain(ok) == IF ok THEN "save" ELSE "exited"

ENV_VARS == {"SM_CHANNEL_TRAIN", "SM_CHANNEL_TEST", "SM_OUTPUT_DIR", "SM_MODEL_DIR"}

TrainInit ==
    /\ hyperparameters = <<>>
    /\ launched = "none"
    /\ environ = <<>>
    /\ input_files = {}
    /\ argv = <<>>
    /\ args = <<>>
    /\ training_args = <<>>
    /\ tr_pc = "not_started"
    /\ read_paths = {}
    /\ written = {}
    /\ trained = FALSE
    /\ exit_error = NoError

\* hyperparameters = {...}
SetHyperparameters ==
    /\ launched = "none"
    /\ hyperparameters = <<>>
    /\ hyperparameters' \in Hyperparameters
    /\ UNCHANGED <<launched, environ, input_files, argv, args, training_args,
                   tr_pc, read_paths, written, trained, exit_error>>

\* estimator.fit(inputs): the platform starts the script in its container
Fit_RunsScript ==
    /\ launched = "none"
    /\ hyperparameters # <<>>
    /\ launched' = "platform"
    /\ environ' = PlatformEnviron(FitInputs)
    /\ input_files' = PlatformInputFiles(FitInputs)
    /\ argv' = HyperparameterArgs(hyperparameters, 1)
    /\ tr_pc' = "main"
    /\ UNCHANGED <<hyperparameters, args, training_args, read_paths, written,
                   trained, exit_error>>

\* The script is run by hand, outside the platform ("if runtime is not"),
\* with any of the four variables set.
RunLocally ==
    /\ launched = "none"
    /\ hyperparameters # <<>>
    /\ launched' = "local"
    /\ \E set \in SUBSET ENV_VARS :
           environ' = [name \in set |-> PlatformEnviron(FitInputs)[name]]
    /\ input_files' = PlatformInputFiles(FitInputs)
    /\ argv' = HyperparameterArgs(hyperparameters, 1)
    /\ tr_pc' = "main"
    /\ UNCHANGED <<hyperparameters, args, training_args, read_paths, written,
                   trained, exit_error>>

\* an exception propagates out of the script
Exits(e) ==
    /\ exit_error' = e
    /\ tr_pc' = "exited"

\* parser = ...; args, _ = parser.parse_known_args()
Main_ParseArgs ==
    /\ tr_pc = "main"
    /\ LET r == ParseKnownArgs(argv, 1, Defaults) IN
       IF r.ok
       THEN /\ args' = r.ns
            /\ tr_pc' = "read_train"
            /\ UNCHANGED exit_error
       ELSE /\ Exits(Exception("SystemExit", "2"))
            /\ UNCHANGED args
    /\ UNCHANGED <<hyperparameters, launched, environ, input_files, argv,
                   training_args, read_paths, written, trained>>

\* pd.read_csv(os.path.join(os.environ[var], name), header=0)
ReadChannel(var, name, next) ==
    IF var \notin DOMAIN environ
    THEN Exits(Exception("KeyError", var)) /\ UNCHANGED read_paths
    ELSE LET path == PathJoin(environ[var], name) IN
         IF path \notin input_files
         THEN Exits(Exception("FileNotFoundError", path)) /\ UNCHANGED read_paths
         ELSE /\ read_paths' = read_paths \cup {path}
              /\ tr_pc' = next
              /\ UNCHANGED exit_error

GetTokenizedData_ReadTrain ==
    /\ tr_pc = "read_train"
    /\ ReadChannel("SM_CHANNEL_TRAIN", "train_dataset.csv", "read_test")
    /\ UNCHANGED <<hyperparameters, launched, environ, input_files, argv, args,
                   training_args, written, trained>>

GetTokenizedData_ReadTest ==
    /\ tr_pc = "read_test"
    /\ ReadChannel("SM_CHANNEL_TEST", "test_dataset.csv", "tokenize")
    /\ UNCHANGED <<hyperparameters, launched, environ, input_files, argv, args,
                   training_args, written, trained>>

\* tokenizer = DistilBertTokenizerFast.from_pretrained(MODEL_NAME) and the
\* tokenization of both datasets: the library's work, which may fail
GetTokenizedData_Tokenize ==
    /\ tr_pc = "tokenize"
    /\ \E ok \in BOOLEAN :
           IF ok THEN tr_pc' = "training_args" /\ UNCHANGED exit_error
           ELSE Exits(Exception("OSError", "tokenizer " \o MODEL_NAME))
    /\ UNCHANGED <<hyperparameters, launched, environ, input_files, argv, args,
                   training_args, read_paths, written, trained>>

\* training_args = TrainingArguments(output_dir=os.getenv(...), ...)
Train_TrainingArguments ==
    /\ tr_pc = "training_args"
    /\ training_args' = TrainingArguments(environ, args)
    /\ tr_pc' = "load_model"
    /\ UNCHANGED <<hyperparameters, launched, environ, input_files, argv, args,
                   read_paths, written, trained, exit_error>>

\* config = ...; model = DistilBertForSequenceClassification.from_pretrained(...)
Train_LoadModel ==
    /\ tr_pc = "load_model"
    /\ \E ok \in BOOLEAN :
           IF ok THEN tr_pc' = "train" /\ UNCHANGED exit_error
           ELSE Exits(Exception("OSError", "model " \o MODEL_NAME))
    /\ UNCHANGED <<hyperparameters, launched, environ, input_files, argv, args,
                   training_args, read_paths, written, trained>>

\* trainer = Trainer(...); trainer.train(): checkpoints and logs go to
\* output_dir, also when training fails half-way
Train_TrainerTrain ==
    /\ tr_pc = "train"
    /\ \E ok \in BOOLEAN, wrote \in BOOLEAN :
           /\ written' = IF ok \/ wrote
                         THEN written \cup {<<training_args["output_dir"].v, "artifacts">>}
                         ELSE written
           /\ trained' = ok
           /\ IF AfterTrain(ok) = "exited"
              THEN Exits(Exception("RuntimeError", "trainer.train"))
              ELSE tr_pc' = AfterTrain(ok) /\ UNCHANGED exit_error
    /\ UNCHANGED <<hyperparameters, launched, environ, input_files, argv, args,
                   training_args, read_paths>>

\* model.save_pretrained(os.environ["SM_MODEL_DIR"])
Train_SaveModel ==
    /\ tr_pc = "save"
    /\ IF "SM_MODEL_DIR" \notin DOMAIN environ
       THEN Exits(Exception("KeyError", "SM_MODEL_DIR")) /\ UNCHANGED written
       ELSE /\ written' = written \cup {<<environ["SM_MODEL_DIR"], "model">>}
            /\ tr_pc' = "exited"
            /\ UNCHANGED exit_error
    /\ UNCHANGED <<hyperparameters, launched, environ, input_files, argv, args,
                   training_args, read_paths, trained>>

TrainNext ==
    \/ SetHyperparameters /\ UNCHANGED otherThanTrain
    \/ Fit_RunsScript /\ UNCHANGED otherThanTrain
    \/ RunLocally /\ UNCHANGED otherThanTrain
    \/ Main_ParseArgs /\ UNCHANGED otherThanTrain
    \/ GetTokenizedData_ReadTrain /\ UNCHANGED otherThanTrain
    \/ GetTokenizedData_ReadTest /\ UNCHANGED otherThanTrain
    \/ GetTokenizedData_Tokenize /\ UNCHANGED otherThanTrain
    \/ Train_TrainingArguments /\ UNCHANGED otherThanTrain
    \/ Train_LoadModel /\ UNCHANGED otherThanTrain
    \/ Train_TrainerTrain /\ UNCHANGED otherThanTrain
    \/ Train_SaveModel /\ UNCHANGED otherThanTrain

-----------------------------------------------------------------------------
(* 2_sources/Dockerfile.training and `docker build` over it *)

\* FROM, RUN, ENV name value, COPY src dest, in the file's order
DOCKERFILE_CopyFirst ==
    << [op |-> "FROM", a |-> "763104351884.dkr.ecr.us-east-1.amazonaws.com/pytorch-training:1.9.0-gpu-py38-cu111-ubuntu20.04", b |-> ""],
       [op |-> "RUN", a |-> "pip3 install git+https://github.com/huggingface/transformers", b |-> ""],
       [op |-> "COPY", a |-> "1_sources/train.py", b |-> "$SAGEMAKER_SUBMIT_DIRECTORY/$SAGEMAKER_PROGRAM"],
       [op |-> "ENV", a |-> "SAGEMAKER_SUBMIT_DIRECTORY", b |-> "/opt/ml/code"],
       [op |-> "ENV", a |-> "SAGEMAKER_PROGRAM", b |-> "train.py"] >>

DOCKERFILE ==
    << [op |-> "FROM", a |-> "763104351884.dkr.ecr.us-east-1.amazonaws.com/pytorch-training:1.9.0-gpu-py38-cu111-ubuntu20.04", b |-> ""],
       [op |-> "RUN", a |-> "pip3 install git+https://github.com/huggingface/transformers", b |-> ""],
       [op |-> "ENV", a |-> "SAGEMAKER_SUBMIT_DIRECTORY", b |-> "/opt/ml/code"],
       [op |-> "ENV", a |-> "SAGEMAKER_PROGRAM", b |-> "train.py"],
       [op |-> "COPY", a |-> "1_sources/train.py", b |-> "$SAGEMAKER_SUBMIT_DIRECTORY/$SAGEMAKER_PROGRAM"] >>

\* The build context: the chapter's directory, each file standing for itself
BuildContext ==
    [path \in {"1_sources/train.py", "1_sources/inference.py",
               "2_sources/Dockerfile.training"} |-> path]

NameChars == UpperCase \o LowerCase \o "0123456789_"

\* the end of the variable name that starts at s[i]
RECURSIVE ScanName(_, _)
ScanName(s, i) ==
    IF i <= Len(s) /\ Contains(Char(s, i), NameChars) THEN ScanName(s, i + 1) ELSE i

\* $NAME in an ENV value or a COPY destination is replaced by the value
\* the image's environment gives NAME so far, by nothing when it gives none
RECURSIVE Expand(_, _)
Expand(s, env) ==
    IF s = "" THEN ""
    ELSE IF Char(s, 1) = "$"
    THEN LET j == ScanName(s, 2) IN
         (IF j = 2 THEN "$"
          ELSE IF SubSeq(s, 2, j - 1) \in DOMAIN env THEN env[SubSeq(s, 2, j - 1)]
          ELSE "")
         \o Expand(SubSeq(s, j, Len(s)), env)
    ELSE Char(s, 1) \o Expand(SubSeq(s, 2, Len(s)), env)

\* f with key k set to v
With(f, k, v) == [x \in DOMAIN f \cup {k} |-> IF x = k THEN v ELSE f[x]]

\* COPY src dest: a dest that ends in "/" is a directory
CopyTarget(src, dest) ==
    IF dest # "" /\ Char(dest, Len(dest)) = "/" THEN dest \o Basename(src) ELSE dest

NoFiles == [path \in {} |-> ""]

\* !./build_and_push.sh {image_name} {tag} 2_sources/Dockerfile.training
Build_Start ==
    /\ build = "none"
    /\ build' = "building"
    /\ build_pc' = 1
    /\ UNCHANGED <<image_env, image_fs, program>>

\* FROM: the base image, which sets neither variable and holds no script
Build_From ==
    /\ build = "building"
    /\ build_pc <= Len(DOCKERFILE)
    /\ DOCKERFILE[build_pc].op = "FROM"
    /\ image_env' = NoFiles
    /\ image_fs' = NoFiles
    /\ build_pc' = build_pc + 1
    /\ UNCHANGED <<build, program>>

\* RUN pip3 install ...: changes no variable and adds no script; may fail
Build_Run ==
    /\ build = "building"
    /\ build_pc <= Len(DOCKERFILE)
    /\ DOCKERFILE[build_pc].op = "RUN"
    /\ \E ok \in BOOLEAN :
           IF ok THEN build_pc' = build_pc + 1 /\ UNCHANGED build
           ELSE build' = "failed" /\ UNCHANGED build_pc
    /\ UNCHANGED <<image_env, image_fs, program>>

\* ENV name value
Build_Env ==
    /\ build = "building"
    /\ build_pc <= Len(DOCKERFILE)
    /\ DOCKERFILE[build_pc].op = "ENV"
    /\ image_env' = With(image_env, DOCKERFILE[build_pc].a,
                         Expand(DOCKERFILE[build_pc].b, image_env))
    /\ build_pc' = build_pc + 1
    /\ UNCHANGED <<build, image_fs, program>>

\* COPY src dest
Build_Copy ==
    /\ build = "building"
    /\ build_pc <= Len(DOCKERFILE)
    /\ DOCKERFILE[build_pc].op = "COPY"
    /\ IF DOCKERFILE[build_pc].a \in DOMAIN BuildContext
       THEN /\ image_fs' = With(image_fs,
                                CopyTarget(DOCKERFILE[build_pc].a,
                                           Expand(DOCKERFILE[build_pc].b, image_env)),
                                BuildContext[DOCKERFILE[build_pc].a])
            /\ build_pc' = build_pc + 1
            /\ UNCHANGED build
       ELSE /\ build' = "failed"
            /\ UNCHANGED <<image_fs, build_pc>>
    /\ UNCHANGED <<image_env, program>>

\* the last instruction is done: the image is tagged and pushed
Build_Ends ==
    /\ build = "building"
    /\ build_pc = Len(DOCKERFILE) + 1
    /\ build' = "built"
    /\ UNCHANGED <<build_pc, image_env, image_fs, program>>

-----------------------------------------------------------------------------
(* The BYO serving notebook: the endpoint test *)

TEST_IMAGE == "sample_image.jpg"

\* An image file is what it pictures and its size; a file that is no image
\* has neither.
Image(id, w, h) == [id |-> id, w |-> w, h |-> h]
NotAnImage == Image("", 0, 0)

\* https://farm1.static.flickr.com/56/152004091_5bfbc69bb3.jpg
Photo == Image("152004091_5bfbc69bb3", 500, 375)

\* What the working directory may hold when the notebook is opened:
\* nothing, or a file 152004091_5bfbc69bb3.jpg left by an earlier download
\* of the photo under its own name, or another picture under that name.
WorkingDirectories ==
    { NoFiles,
      [name \in {"152004091_5bfbc69bb3.jpg"} |-> Photo],
      [name \in {"152004091_5bfbc69bb3.jpg"} |-> Image("another", 640, 480)] }

\* cv2.imread(name): the image, or None when there is no such image file
Imread(dir, name) ==
    IF name \in DOMAIN dir /\ dir[name] # NotAnImage THEN dir[name] ELSE NotAnImage

\* cv2.resize(img, dsize=(224, 224), interpolation=cv2.INTER_CUBIC)
Resize(img, dsize) == Image(img.id, dsize[1], dsize[2])

DSIZE == <<224, 224>>

\* the file resize_image(filename) reads: cv2.imread('152004091_5bfbc69bb3.jpg')
ResizeReads(filename) == "152004091_5bfbc69bb3.jpg"

\* resized_filename = "resized_"+TEST_IMAGE
ResizedFilename == "resized_" \o TEST_IMAGE

ByoInit ==
    /\ byo_pc = "closed"
    /\ byo_files = NoFiles
    /\ resized_test_image = ""
    /\ byo_error = NoError
    /\ payload = NotAnImage
    /\ h_body = NotAnImage
    /\ h_initialized = FALSE
    /\ h_loads = 0
    /\ h_pc = "idle"
    /\ h_steps = <<>>
    /\ h_requests = 0

\* the notebook is opened in its working directory
Byo_Open ==
    /\ byo_pc = "closed"
    /\ byo_files' \in WorkingDirectories
    /\ byo_pc' = "download"
    /\ UNCHANGED <<resized_test_image, byo_error, payload, h_body, h_initialized,
                   h_loads, h_pc, h_steps, h_requests>>

\* ! wget -O {TEST_IMAGE} https://...: the photo, or with no connection an
\* empty file, is written under the name TEST_IMAGE
Byo_Download ==
    /\ byo_pc = "download"
    /\ \E img \in {Photo, NotAnImage} : byo_files' = With(byo_files, TEST_IMAGE, img)
    /\ byo_pc' = "resize"
    /\ UNCHANGED <<resized_test_image, byo_error, payload, h_body, h_initialized,
                   h_loads, h_pc, h_steps, h_requests>>

\* resized_test_image = resize_image(TEST_IMAGE)
Byo_Resize ==
    /\ byo_pc = "resize"
    /\ LET img == Imread(byo_files, ResizeReads(TEST_IMAGE)) IN
       IF img = NotAnImage
       THEN \* cv2.resize(None, ...) raises
            /\ byo_error' = Exception("cv2.error", "resize")
            /\ byo_pc' = "stopped"
            /\ UNCHANGED <<byo_files, resized_test_image>>
       ELSE /\ byo_files' = With(byo_files, ResizedFilename, Resize(img, DSIZE))
            /\ resized_test_image' = ResizedFilename
            /\ byo_pc' = "invoke"
            /\ UNCHANGED byo_error
    /\ UNCHANGED <<payload, h_body, h_initialized, h_loads, h_pc, h_steps,
                   h_requests>>

\* payload = open(resized_test_image, 'rb');
\* response = client.invoke_endpoint(..., Body=payload, ...): the endpoint's
\* handler is called with the payload. The cell may be run again.
Byo_Invoke ==
    /\ byo_pc = "invoke"
    /\ h_pc = "idle"
    /\ h_requests < MaxRequests
    /\ payload' = byo_files[resized_test_image]
    /\ h_body' = byo_files[resized_test_image]
    /\ h_pc' = "check"
    /\ h_steps' = <<>>
    /\ h_requests' = h_requests + 1
    /\ UNCHANGED <<byo_pc, byo_files, resized_test_image, byo_error,
                   h_initialized, h_loads>>

-----------------------------------------------------------------------------
(* 3_sources/src/model_handler.py, as the BYO notebook describes it:       *)
(* "method handle() checks if model is already loaded into memory. If      *)
(* it's not, it will load model into memory once and then proceed to       *)
(* handling serving request which includes: deserializing request payload, *)
(* running predictions, serializing predictions."                          *)

\* Pictures other clients of the endpoint send
ClientImages == {Photo, Resize(Photo, DSIZE), Image("another", 640, 480)}

HANDLING == <<"deserialize", "predict", "serialize">>

LoadsEveryTime(initialized) == TRUE

\* handle(): the model is loaded when it is not loaded yet
NeedsLoad(initialized) == ~initialized

\* Another client of the endpoint sends a request.
Handle_Call ==
    /\ h_pc = "idle"
    /\ h_requests < MaxRequests
    /\ h_body' \in ClientImages
    /\ h_pc' = "check"
    /\ h_steps' = <<>>
    /\ h_requests' = h_requests + 1
    /\ UNCHANGED <<byo_pc, byo_files, resized_test_image, byo_error, payload,
                   h_initialized, h_loads>>

\* handle(): "checks if model is already loaded into memory. If it's not,
\* it will load model into memory once"
Handle_CheckLoaded ==
    /\ h_pc = "check"
    /\ IF NeedsLoad(h_initialized)
       THEN h_initialized' = TRUE /\ h_loads' = h_loads + 1
       ELSE UNCHANGED <<h_initialized, h_loads>>
    /\ h_pc' = HANDLING[1]
    /\ UNCHANGED <<byo_pc, byo_files, resized_test_image, byo_error, payload,
                   h_body, h_steps, h_requests>>

\* "and then proceed to handling serving request": the next of
\* deserializing, predicting, serializing
Handle_Step ==
    /\ \E k \in 1..Len(HANDLING) :
           /\ h_pc = HANDLING[k]
           /\ h_steps' = Append(h_steps, HANDLING[k])
           /\ h_pc' = IF k < Len(HANDLING) THEN HANDLING[k + 1] ELSE "idle"
    /\ UNCHANGED <<byo_pc, byo_files, resized_test_image, byo_error, payload,
                   h_body, h_initialized, h_loads, h_requests>>

ByoNext ==
    \/ Byo_Open /\ UNCHANGED otherThanByo
    \/ Byo_Download /\ UNCHANGED otherThanByo
    \/ Byo_Resize /\ UNCHANGED otherThanByo
    \/ Byo_Invoke /\ UNCHANGED otherThanByo
    \/ Handle_Call /\ UNCHANGED otherThanByo
    \/ Handle_CheckLoaded /\ UNCHANGED otherThanByo
    \/ Handle_Step /\ UNCHANGED otherThanByo

-----------------------------------------------------------------------------
(* 2_Extending_Prebuilt_Training_Container.ipynb: the training job *)

\* Values the notebook's user may give each hyperparameter; the first of
\* each is the value written in the notebook.
ExtHyperparameterChoices_Renamed ==
    << <<"epochs", <<PyInt(1), PyInt(3)>> >>,
       <<"train-batch-size", <<PyInt(16), PyInt(8)>> >>,
       <<"per-device-eval-batch-size", <<PyInt(64)>> >>,
       <<"warmup-steps", <<PyInt(100), PyInt(0)>> >>,
       <<"logging-steps", <<PyInt(100), PyInt(50)>> >>,
       <<"weight-decay", <<PyFloat("0.01"), PyFloat("0.1")>> >> >>

ExtHyperparameterChoices ==
    << <<"epochs", <<PyInt(1), PyInt(3)>> >>,
       <<"per-device-train-batch-size", <<PyInt(16), PyInt(8)>> >>,
       <<"per-device-eval-batch-size", <<PyInt(64)>> >>,
       <<"warmup-steps", <<PyInt(100), PyInt(0)>> >>,
       <<"logging-steps", <<PyInt(100), PyInt(50)>> >>,
       <<"weight-decay", <<PyFloat("0.01"), PyFloat("0.1")>> >> >>

\* every dict with the given keys, in order, and one of the values of each
Dicts(choices) ==
    { [i \in 1..Len(choices) |-> <<choices[i][1], choices[i][2][pick[i]]>>] :
      pick \in { f \in [1..Len(choices) -> 1..2] :
                 \A i \in 1..Len(choices) : f[i] <= Len(choices[i][2]) } }

\* the dict as the notebook writes it
AsWritten(choices) == [i \in 1..Len(choices) |-> <<choices[i][1], choices[i][2][1]>>]

\* train_dataset_uri="s3://<YOUR S3 BUCKET>/newsgroups/train_dataset.csv",
\* test_dataset_uri likewise: "the S3 URIs ... from Script Mode example",
\* whose bucket is the session's
ExtDatasetUri(bucket, name) == "s3://" \o bucket \o "/newsgroups/" \o name

\* estimator.fit({"train": train_dataset_uri, "test": test_dataset_uri})
ExtFitInputs ==
    << <<"train", ExtDatasetUri(DefaultBucket, "train_dataset.csv")>>,
       <<"test", ExtDatasetUri(DefaultBucket, "test_dataset.csv")>> >>

\* Script Mode: HuggingFace(entry_point="train.py", source_dir="1_sources")
EntryPoint == PathJoin("1_sources", "train.py")

\* the program the container starts: $SAGEMAKER_SUBMIT_DIRECTORY/$SAGEMAKER_PROGRAM
ProgramPath(env) ==
    PathJoin(GetEnv(env, "SAGEMAKER_SUBMIT_DIRECTORY", ""),
             GetEnv(env, "SAGEMAKER_PROGRAM", ""))

ExtInit ==
    /\ build = "none"
    /\ build_pc = 0
    /\ image_env = NoFiles
    /\ image_fs = NoFiles
    /\ program = ""

\* hyperparameters = {...}
Ext_SetHyperparameters ==
    /\ build = "built"
    /\ launched = "none"
    /\ hyperparameters = <<>>
    /\ hyperparameters' \in Dicts(ExtHyperparameterChoices)
    /\ UNCHANGED <<launched, environ, input_files, argv, args, training_args,
                   tr_pc, read_paths, written, trained, exit_error>>
    /\ UNCHANGED extVars

\* Estimator(image_uri=..., hyperparameters=hyperparameters, ...).fit(...):
\* the platform starts the image's program with the hyperparameters as
\* arguments and the channels downloaded
Ext_Fit ==
    /\ build = "built"
    /\ launched = "none"
    /\ hyperparameters # <<>>
    /\ launched' = "extended"
    /\ environ' = PlatformEnviron(ExtFitInputs)
    /\ input_files' = PlatformInputFiles(ExtFitInputs)
    /\ argv' = HyperparameterArgs(hyperparameters, 1)
    /\ IF /\ "SAGEMAKER_PROGRAM" \in DOMAIN image_env
          /\ ProgramPath(image_env) \in DOMAIN image_fs
       THEN /\ program' = image_fs[ProgramPath(image_env)]
            /\ tr_pc' = "main"
            /\ UNCHANGED exit_error
       ELSE /\ Exits(Exception("ClientError", "No program to run"))
            /\ UNCHANGED program
    /\ UNCHANGED <<hyperparameters, args, training_args, read_paths, written,
                   trained>>
    /\ UNCHANGED <<build, build_pc, image_env, image_fs>>

ExtNext ==
    \/ Build_Start /\ UNCHANGED trainVars /\ UNCHANGED otherThanExt
    \/ Build_From /\ UNCHANGED trainVars /\ UNCHANGED otherThanExt
    \/ Build_Run /\ UNCHANGED trainVars /\ UNCHANGED otherThanExt
    \/ Build_Env /\ UNCHANGED trainVars /\ UNCHANGED otherThanExt
    \/ Build_Copy /\ UNCHANGED trainVars /\ UNCHANGED otherThanExt
    \/ Build_Ends /\ UNCHANGED trainVars /\ UNCHANGED otherThanExt
    \/ Ext_SetHyperparameters /\ UNCHANGED otherThanExt
    \/ Ext_Fit /\ UNCHANGED otherThanExt
    \/ Main_ParseArgs /\ UNCHANGED otherThanTrain
    \/ GetTokenizedData_ReadTrain /\ UNCHANGED otherThanTrain
    \/ GetTokenizedData_ReadTest /\ UNCHANGED otherThanTrain
    \/ GetTokenizedData_Tokenize /\ UNCHANGED otherThanTrain
    \/ Train_TrainingArguments /\ UNCHANGED otherThanTrain
    \/ Train_LoadModel /\ UNCHANGED otherThanTrain
    \/ Train_TrainerTrain /\ UNCHANGED otherThanTrain
    \/ Train_SaveModel /\ UNCHANGED otherThanTrain

-----------------------------------------------------------------------------
(* Specifications: each runs one part and leaves the others as they start *)

Init == ServeInit /\ NbInit /\ TrainInit /\ ExtInit /\ ByoInit

SpecServe == Init /\ [][ServeNext]_vars

SpecNotebook == Init /\ [][NbNext]_vars

SpecDataset == Init /\ [][DatasetNext]_vars

SpecTrain == Init /\ [][TrainNext]_vars

SpecExtend == Init /\ [][ExtNext]_vars

SpecByo == Init /\ [][ByoNext]_vars

-----------------------------------------------------------------------------
(* Claims about transform_fn, under SpecServe *)

\* the body is the JSON encoding of an input of the pipeline
IsPayload(d) == json_loads(d).ok /\ PipelineAccepts(json_loads(d).v)

\* C1: a request whose content type and accept type contain "json" and whose
\* body is a JSON-encoded payload is answered, and the answer is a JSON text,
\* namely dumps(pipeline(loads(data))).
C1_JsonInJsonOut ==
    (t_pc = "done" /\ Contains("json", content_type) /\ Contains("json", accept_type)
        /\ IsPayload(data))
    => /\ outcome = "returned"
       /\ response = json_dumps(Pipeline(json_loads(data).v))
       /\ IsJson(response)
       /\ PyEq(json_loads(response).v, Pipeline(json_loads(data).v))

\* a two-text payload with irregular spacing and escapes, sent as JSON lines,
\* has been answered
C1_Witness ==
    /\ t_pc = "done"
    /\ outcome = "returned"
    /\ data = " [\"q\\\"x\",\"l\\nm\" ]"
    /\ content_type = "application/jsonlines"
    /\ Len(predictions.v) = 2

\* C2: a request whose content type does not contain "json" gets no response
\* and fails with NotImplementedError carrying the content-type message.
C2_ContentTypeNotImplemented ==
    (t_pc = "done" /\ ~Contains("json", content_type))
    => /\ outcome = "raised"
       /\ response = ""
       /\ error = Exception("NotImplementedError",
                            "Only 'application/json' content type is supported.")

\* C3: a request with a supported content type and a payload, but an accept
\* type that does not contain "json", gets no response and fails with
\* NotImplementedError carrying the accept-type message.
C3_AcceptTypeNotImplemented ==
    (t_pc = "done" /\ Contains("json", content_type) /\ IsPayload(data)
        /\ ~Contains("json", accept_type))
    => /\ outcome = "raised"
       /\ response = ""
       /\ error = Exception("NotImplementedError",
                            "Only 'application/json' accept type is supported.")

\* C4: only the content type 'application/json' is accepted: a request with
\* any other content type, also one that merely contains "json", is not
\* served.
C4_OnlyApplicationJson ==
    (t_pc = "done" /\ content_type # "application/json") => outcome = "raised"

-----------------------------------------------------------------------------
(* Claims about the dataset cells, under SpecNotebook *)

Exported == Len(completed) >= 2

Uploaded == Len(completed) >= 3

\* the rows of a CSV text are the samples of a dataset, in order
HoldsExactly(text, dataset) ==
    LET rows == ReadCsv(text) IN
    /\ Len(rows) = Len(dataset.data)
    /\ \A i \in 1..Len(rows) :
           /\ PyEq(rows[i].category_id, PyInt(dataset.target[i]))
           /\ rows[i].data = dataset.data[i]

\* C5: each file the export step wrote has, under its header, one row per
\* sample of the dataset the step exported into it, and row i carries that
\* dataset's target[i] as category_id and its data[i] as data.
C5_RowsAreSamples ==
    Exported =>
        \A f \in DOMAIN files :
            /\ CsvRecords(files[f])[1] = FIELDNAMES
            /\ HoldsExactly(files[f], ExportedDataset(f))

\* two samples, one with a comma and one with a quote and a line break,
\* have been exported
C5_Witness ==
    /\ Exported
    /\ train_dataset.data = <<"a,b", "q\"x\nm">>
    /\ DOMAIN files = {"train_dataset.csv", "test_dataset.csv"}

\* C6: after the export, train_dataset.csv holds exactly the train split and
\* test_dataset.csv exactly the test split, and the objects behind
\* train_dataset_uri and test_dataset_uri are these two files.
C6_EachSplitInItsFile ==
    Uploaded =>
        /\ HoldsExactly(files["train_dataset.csv"], train_dataset)
        /\ HoldsExactly(files["test_dataset.csv"], test_dataset)
        /\ s3[train_dataset_uri] = files["train_dataset.csv"]
        /\ s3[test_dataset_uri] = files["test_dataset.csv"]

-----------------------------------------------------------------------------
(* Claims about the order of the notebook's steps, under SpecNotebook *)

Completed(c) == \E k \in 1..Len(completed) : completed[k] = c

Started(c) == running = c \/ Completed(c)

\* the steps that are in progress: the cell the kernel executes, and what
\* the platform is doing for the notebook
InProgress ==
    (IF running = "none" THEN {} ELSE {running})
    \cup (IF job = "InProgress" THEN {"fit"} ELSE {})
    \cup (IF endpoint = "Creating" THEN {"deploy"} ELSE {})
    \cup (IF in_flight THEN {"test"} ELSE {})

\* C10: the workflow is strictly sequential: the export is complete before
\* the upload starts, the upload before the training job is submitted, the
\* training job has completed before the model is created and deployed, no
\* prediction request is sent before deploy has returned with the endpoint
\* in service, and never are two steps in progress at once.
C10_StrictlySequential ==
    /\ Started("upload") => Completed("export")
    /\ job # "none" => Completed("upload")
    /\ Started("create_model") => job = "Completed"
    /\ endpoint # "none" => job = "Completed" /\ Completed("create_model")
    /\ (in_flight \/ loop_i > 0) => Completed("deploy") /\ endpoint = "InService"
    /\ Cardinality(InProgress) <= 1

\* the last prediction request of the test loop is in flight
C10_Witness ==
    /\ in_flight
    /\ loop_i = TEST_ITERATIONS - 1
    /\ completed = SubSeq(CELLS, 1, 6)

-----------------------------------------------------------------------------
(* Claims about the training script, under SpecTrain *)

\* something has been written into the directory SM_MODEL_DIR names
SavedToModelDir ==
    \E w \in written : w[1] = GetEnv(environ, "SM_MODEL_DIR", "/opt/ml/model")

\* C7: the model directory is written only after trainer.train() has
\* completed successfully; a run that fails (loading the data, loading the
\* model, training) leaves nothing in the model directory.
C7_SavedOnlyAfterTraining ==
    /\ SavedToModelDir => trained /\ tr_pc = "exited"
    /\ (tr_pc = "exited" /\ exit_error # NoError) => ~SavedToModelDir

\* training failed after writing checkpoints, and the run has ended
C7_Witness ==
    /\ tr_pc = "exited"
    /\ exit_error.type = "RuntimeError"
    /\ written = {<<"/opt/ml/output", "artifacts">>}

DataLoaded == tr_pc \in {"tokenize", "training_args", "load_model", "train", "save"}

\* C8: started by fit, the script reads only train_dataset.csv under
\* SM_CHANNEL_TRAIN and test_dataset.csv under SM_CHANNEL_TEST; these are
\* the channels ("train", "test") and the files fit was given, so both reads
\* find their variable and their file; artifacts go to SM_OUTPUT_DIR and the
\* model to SM_MODEL_DIR.
C8_PlatformDirectoriesOnly ==
    launched = "platform" =>
        /\ read_paths \subseteq
               {PathJoin(GetEnv(environ, "SM_CHANNEL_TRAIN", ""), "train_dataset.csv"),
                PathJoin(GetEnv(environ, "SM_CHANNEL_TEST", ""), "test_dataset.csv")}
        /\ read_paths \subseteq input_files
        /\ exit_error.type \notin {"KeyError", "FileNotFoundError"}
        /\ DataLoaded => read_paths = input_files
        /\ {ChannelVar(FitInputs[k][1]) : k \in 1..Len(FitInputs)}
               = {"SM_CHANNEL_TRAIN", "SM_CHANNEL_TEST"}
        /\ \A w \in written :
               /\ w[2] = "artifacts" => w[1] = GetEnv(environ, "SM_OUTPUT_DIR", "")
               /\ w[2] = "model" => w[1] = GetEnv(environ, "SM_MODEL_DIR", "")

\* a job started by fit has read both files, trained and saved
C8_Witness ==
    /\ launched = "platform"
    /\ tr_pc = "exited"
    /\ exit_error = NoError
    /\ Cardinality(read_paths) = 2
    /\ Cardinality(written) = 2

\* == of two Python numbers: 50 == 50.0
NumEq(a, b) ==
    IF a.t = b.t THEN a.v = b.v
    ELSE IF a.t = "int" /\ b.t = "float" THEN b.v = ToString(a.v) \o ".0"
    ELSE IF a.t = "float" /\ b.t = "int" THEN a.v = ToString(b.v) \o ".0"
    ELSE FALSE

\* the TrainingArguments field that takes args.<dest>
FieldOf(dest) ==
    TRAINING_ARGUMENTS[CHOOSE k \in 1..Len(TRAINING_ARGUMENTS) :
                           TRAINING_ARGUMENTS[k][2] = dest][1]

\* C9: every configured hyperparameter reaches the script as "--key value",
\* its key is a declared argument, the parser captures its value, and the
\* training arguments use a value equal to the configured one.
C9_HyperparametersCaptured ==
    (launched = "platform" /\ tr_pc # "main") =>
        /\ exit_error.type # "SystemExit"
        /\ \A i \in 1..Len(hyperparameters) :
               LET key == hyperparameters[i][1]
                   value == hyperparameters[i][2]
                   flag == "--" \o key
               IN  /\ \E j \in 1..(Len(argv) - 1) :
                          argv[j] = flag /\ argv[j + 1] = json_dumps(value)
                   /\ \E k \in 1..Len(ARGUMENTS) : ARGUMENTS[k].flag = flag
                   /\ NumEq(args[Dest(flag)], value)
                   /\ training_args # <<>> =>
                          NumEq(training_args[FieldOf(Dest(flag))], value)

\* training arguments were built from hyperparameters that all differ from
\* the parser's defaults where the notebook offers another value
C9_Witness ==
    /\ launched = "platform"
    /\ training_args # <<>>
    /\ hyperparameters[1][2] = PyInt(3)
    /\ hyperparameters[2][2] = PyInt(8)
    /\ hyperparameters[5][2] = PyInt(50)
    /\ hyperparameters[6][2] = PyFloat("0.1")


-----------------------------------------------------------------------------
(* The extended training image *)

\* C11: once the image is built, SAGEMAKER_SUBMIT_DIRECTORY and
\* SAGEMAKER_PROGRAM are set in it to the submit directory and the program,
\* the file at SAGEMAKER_SUBMIT_DIRECTORY/SAGEMAKER_PROGRAM is the copied
\* 1_sources/train.py, and that file is what a job started from the image runs.
C11_ProgramIsTheCopiedScript ==
    build = "built" =>
        /\ {"SAGEMAKER_SUBMIT_DIRECTORY", "SAGEMAKER_PROGRAM"} \subseteq DOMAIN image_env
        /\ image_env["SAGEMAKER_SUBMIT_DIRECTORY"] = "/opt/ml/code"
        /\ image_env["SAGEMAKER_PROGRAM"] = "train.py"
        /\ ProgramPath(image_env) \in DOMAIN image_fs
        /\ image_fs[ProgramPath(image_env)] = BuildContext["1_sources/train.py"]
        /\ launched = "extended" =>
               /\ program = BuildContext["1_sources/train.py"]
               /\ exit_error.type # "ClientError"

C11_Witness ==
    /\ build = "built"
    /\ launched = "extended"
    /\ program = "1_sources/train.py"
    /\ DOMAIN image_fs = {"/opt/ml/code/train.py"}
    /\ tr_pc = "exited"
    /\ trained

\* C15: the job run from the extended image runs the Script Mode entry
\* point 1_sources/train.py unchanged, its hyperparameters have the Script
\* Mode keys (and, as written, the Script Mode values), and it is given the
\* Script Mode channels "train" and "test" with the same files.
C15_SameJobAsScriptMode ==
    launched = "extended" =>
        /\ program = EntryPoint
        /\ hyperparameters \in Hyperparameters
        /\ AsWritten(ExtHyperparameterChoices) = AsWritten(HyperparameterChoices)
        /\ {ExtFitInputs[k][1] : k \in 1..Len(ExtFitInputs)} = {"train", "test"}
        /\ environ = PlatformEnviron(FitInputs)
        /\ input_files = PlatformInputFiles(FitInputs)
        /\ exit_error.type \notin {"ClientError", "SystemExit", "KeyError", "FileNotFoundError"}

C15_Witness ==
    /\ launched = "extended"
    /\ hyperparameters = AsWritten(HyperparameterChoices)
    /\ read_paths = {"/opt/ml/input/data/train/train_dataset.csv",
                     "/opt/ml/input/data/test/test_dataset.csv"}
    /\ <<"/opt/ml/model", "model">> \in written

-----------------------------------------------------------------------------
(* The model server and inference.py *)

\* C12: model_fn is called once, when the server starts; no transform_fn
\* call happens before it has returned, it is not called again, and every
\* transform_fn call receives the pipeline it returned.
C12_ModelFnOnceThenTransformFn ==
    /\ model_fn_calls <= 1
    /\ (srv = "serving") <=> (model_fn_calls = 1)
    /\ t_pc # "idle" =>
           /\ model_fn_calls = 1
           /\ loaded # None
           /\ inference_pipeline = loaded

C12_Witness ==
    /\ n_requests = 2
    /\ t_pc = "done"
    /\ model_fn_calls = 1
    /\ inference_pipeline = model_fn("/opt/ml/model", TRUE)

\* C13: when json.loads fails on the payload, or the pipeline fails on the
\* deserialized payload, the request ends with that very error, no response
\* and no second pipeline call.
C13_FailuresPropagate ==
    (t_pc = "done" /\ Contains("json", content_type) /\ ~IsPayload(data)) =>
        /\ outcome = "raised"
        /\ response = ""
        /\ IF ~json_loads(data).ok
           THEN /\ error = Exception("JSONDecodeError", "json.loads")
                /\ pipeline_calls = 0
           ELSE /\ error = Exception("ValueError", "inference_pipeline")
                /\ pipeline_calls = 1
                /\ predictions = None

\* the pipeline has failed on a deserialized payload that is no text
C13_Witness ==
    /\ t_pc = "done"
    /\ n_requests = 2
    /\ data = "[1]"
    /\ error.type = "ValueError"
    /\ pipeline_calls = 1
    /\ Contains("json", accept_type)

\* C14: a transform_fn call leaves the module's variables and the server's
\* pipeline as they were, and a request that repeats the one before it, with
\* the same pipeline, ends as that one did.
C14_NoGlobalState ==
    /\ module = ModuleGlobals
    /\ t_pc # "idle" => inference_pipeline = loaded
    /\ prev.outcome # "none" =>
           /\ prev.pipeline = inference_pipeline
           /\ t_pc = "done" =>
                  /\ outcome = prev.outcome
                  /\ response = prev.response
                  /\ error = prev.error

\* the same request was answered twice
C14_Witness ==
    /\ t_pc = "done"
    /\ n_requests = 2
    /\ prev.outcome = "returned"
    /\ prev.data = "[\"ab\", \"a,b\"]"
    /\ response = prev.response

\* C19: a request whose content type does not contain "json" fails with
\* nothing deserialized and the pipeline not called; deserialization and
\* inference are reached only with a content type that contains "json".
C19_RejectedBeforeInference ==
    /\ t_pc \in {"infer", "serialize"} => Contains("json", content_type)
    /\ (t_pc = "done" /\ ~Contains("json", content_type)) =>
           /\ outcome = "raised"
           /\ deser_data = None
           /\ predictions = None
           /\ pipeline_calls = 0
           /\ response = ""

\* a request the pipeline could have answered, rejected for its content type
C19_Witness ==
    /\ t_pc = "done"
    /\ content_type = "text/csv"
    /\ accept_type = "application/json"
    /\ IsPayload(data)
    /\ outcome = "raised"
    /\ pipeline_calls = 0

\* C20: a request with a content type that contains "json", a payload the
\* pipeline takes and an accept type that does not contain "json" fails
\* after the payload was deserialized and the pipeline called exactly once;
\* the predictions are computed and no response is returned.
C20_AcceptCheckedAfterInference ==
    (t_pc = "done" /\ Contains("json", content_type)
        /\ ~Contains("json", accept_type) /\ IsPayload(data)) =>
        /\ outcome = "raised"
        /\ response = ""
        /\ pipeline_calls = 1
        /\ PyEq(deser_data, json_loads(data).v)
        /\ PyEq(predictions, Pipeline(json_loads(data).v))

C20_Witness ==
    /\ t_pc = "done"
    /\ content_type = "application/json"
    /\ accept_type = "text/csv"
    /\ data = "[\"ab\", \"a,b\"]"
    /\ outcome = "raised"
    /\ pipeline_calls = 1
    /\ Len(predictions.v) = 2

-----------------------------------------------------------------------------
(* The endpoint test loop *)

\* C18: every sample_id the test loop draws is an index of
\* test_dataset['data'] and test_dataset['target'], and no iteration fails
\* with an index out of range.
C18_SampleIdsValid ==
    /\ nb_error.type # "IndexError"
    /\ (running = "test" /\ (in_flight \/ loop_i > 0)) =>
           /\ ValidIndex(test_dataset.data, sample_id)
           /\ ValidIndex(test_dataset.target, sample_id)

-----------------------------------------------------------------------------
(* The BYO serving notebook *)

\* C16: once the resize cell has run, resize_image has read the file named
\* by its argument, the downloaded TEST_IMAGE, and written its 224x224 copy,
\* and that copy is what the invoke cell sends.
C16_ResizesTheDownloadedImage ==
    byo_pc \in {"invoke", "stopped"} =>
        /\ byo_error = NoError
        /\ resized_test_image \in DOMAIN byo_files
        /\ byo_files[resized_test_image] = Resize(byo_files[TEST_IMAGE], DSIZE)
        /\ payload # NotAnImage => payload = Resize(byo_files[TEST_IMAGE], DSIZE)

\* C17: the handler loads the model exactly once, on the first handle()
\* call, and deserializes, predicts and serializes, in that order, only with
\* the model loaded.
C17_LoadedOnceThenHandled ==
    /\ h_loads <= 1
    /\ h_initialized <=> (h_loads = 1)
    /\ (h_requests > 0 /\ h_pc # "check") => h_loads = 1
    /\ h_pc \in {"deserialize", "predict", "serialize"} => h_initialized
    /\ \E k \in 0..Len(HANDLING) : h_steps = SubSeq(HANDLING, 1, k)
    /\ (h_requests > 0 /\ h_pc = "idle") => h_steps = HANDLING

C17_Witness ==
    /\ h_requests = 2
    /\ h_pc = "idle"
    /\ h_loads = 1
    /\ h_steps = HANDLING

-----------------------------------------------------------------------------
(* The training script's environment variables *)

\* C21: in a run of train.py, an unset SM_OUTPUT_DIR is no error and the
\* output directory is "./"; with SM_CHANNEL_TRAIN or SM_CHANNEL_TEST unset
\* the run ends with the KeyError of the first of them it needs, before any
\* tokenization or training; with SM_MODEL_DIR unset the run fails only once
\* trainer.train() has returned, with that KeyError and no model saved.
C21_EnvironmentVariables ==
    launched # "none" =>
        /\ "SM_OUTPUT_DIR" \notin DOMAIN environ =>
               /\ exit_error # Exception("KeyError", "SM_OUTPUT_DIR")
               /\ training_args # <<>> => training_args["output_dir"] = PyStr("./")
               /\ \A w \in written : w[2] = "artifacts" => w[1] = "./"
        /\ {"SM_CHANNEL_TRAIN", "SM_CHANNEL_TEST"} \ DOMAIN environ # {} =>
               /\ tr_pc \in {"main", "read_train", "read_test", "exited"}
               /\ training_args = <<>>
               /\ ~trained
               /\ written = {}
               /\ tr_pc = "exited" =>
                      exit_error =
                          Exception("KeyError",
                                    IF "SM_CHANNEL_TRAIN" \notin DOMAIN environ
                                    THEN "SM_CHANNEL_TRAIN" ELSE "SM_CHANNEL_TEST")
        /\ "SM_MODEL_DIR" \notin DOMAIN environ =>
               /\ \A w \in written : w[2] # "model"
               /\ exit_error = Exception("KeyError", "SM_MODEL_DIR") =>
                      trained /\ tr_pc = "exited"
               /\ (tr_pc = "exited" /\ trained) =>
                      exit_error = Exception("KeyError", "SM_MODEL_DIR")

\* with only the two channel variables set, training ran to its end in
\* "./" and the run then failed for SM_MODEL_DIR
C21_Witness ==
    /\ launched = "local"
    /\ DOMAIN environ = {"SM_CHANNEL_TRAIN", "SM_CHANNEL_TEST"}
    /\ tr_pc = "exited"
    /\ trained
    /\ written = {<<"./", "artifacts">>}
    /\ exit_error = Exception("KeyError", "SM_MODEL_DIR")

-----------------------------------------------------------------------------
(* The number of labels, under SpecDataset *)

\* the category_id cells of a CSV text, as values
CategoryIds(text) ==
    LET rows == ReadCsv(text) IN { rows[i].category_id : i \in 1..Len(rows) }

\* C22: NUM_LABELS of train.py, NUM_LABELS of inference.py and the number
\* of selected categories are one number, 6, and every category_id in a
\* file the export step wrote is an integer in 0..NUM_LABELS-1.
C22_LabelsConsistent ==
    /\ Train_NUM_LABELS = NUM_LABELS
    /\ NUM_LABELS = Len(categories)
    /\ Len(categories) = 6
    /\ Exported =>
           \A f \in DOMAIN files :
               \A c \in CategoryIds(files[f]) :
                   c.t = "int" /\ c.v \in 0..(NUM_LABELS - 1)

\* samples of the last and of the first category have been exported
C22_Witness ==
    /\ Exported
    /\ DOMAIN files = {"train_dataset.csv", "test_dataset.csv"}
    /\ train_dataset.target = <<Len(categories) - 1, 0>>
    /\ CategoryIds(files["train_dataset.csv"]) = {PyInt(5), PyInt(0)}

=============================================================================
